---- MODULE Spec2Model ----
(***************************************************************************)
(* The payment ledger of the Kid Tok backend (src/cloudinary.js): the two  *)
(* in-memory Maps `transactions` and `users`, the two payment handlers     *)
(* (create-payment, confirm-payment) and the two query handlers.           *)
(*                                                                         *)
(* Node runs one handler at a time; a handler gives up control only at its *)
(* `await` on the Stripe call.  Each handler is therefore two atomic       *)
(* steps: the synchronous part up to the await, and the part after the     *)
(* promise settles (fulfilled or rejected).                                *)
(***************************************************************************)
EXTENDS Integers, Sequences, FiniteSets, Bags, TLC

(***************************************************************************)
(* Bounds of the exploration.                                              *)
(***************************************************************************)
MaxRequests == 3      \* payment requests received during one run
MaxClock == 1         \* the clock reads 0..MaxClock

(***************************************************************************)
(* JavaScript values.                                                      *)
(***************************************************************************)
Undefined == "<undefined>"

\* Destructuring a property the object does not have yields undefined.
GetField(obj, f) == IF f \in DOMAIN obj THEN obj[f] ELSE Undefined

\* `!v` for the string-or-undefined values the handlers test.
Falsy(v) == v = Undefined \/ v = ""

\* obj.f = v, creating the property when it is absent.
SetField(obj, f, v) == [k \in DOMAIN obj \cup {f} |-> IF k = f THEN v ELSE obj[k]]

(***************************************************************************)
(* A JavaScript Map: entries in insertion order, at most one per key.      *)
(***************************************************************************)
MapHas(m, k) == \E i \in DOMAIN m : m[i].key = k

MapIndex(m, k) == CHOOSE i \in DOMAIN m : m[i].key = k

MapGet(m, k) == m[MapIndex(m, k)].value

\* set() on a present key replaces the value in place; otherwise appends.
MapSet(m, k, v) ==
    IF MapHas(m, k)
    THEN [m EXCEPT ![MapIndex(m, k)] = [key |-> k, value |-> v]]
    ELSE Append(m, [key |-> k, value |-> v])

\* Array.from(m.values())
MapValues(m) == [i \in DOMAIN m |-> m[i].value]

MapKeys(m) == {m[i].key : i \in DOMAIN m}

(***************************************************************************)
(* Request inputs.                                                         *)
(***************************************************************************)
UserIds == {"u1", "u2"}

\* The characters of each e-mail string a request may carry.
EmailChars ==
    [e \in {"a@b.c", "ab.c", "a@bc", "a @b.c", "a@b.", "@b.c", "a@.c", "a@b@c.d"} |->
        CASE e = "a@b.c"   -> <<"a", "@", "b", ".", "c">>
          [] e = "ab.c"    -> <<"a", "b", ".", "c">>
          [] e = "a@bc"    -> <<"a", "@", "b", "c">>
          [] e = "a @b.c"  -> <<"a", " ", "@", "b", ".", "c">>
          [] e = "a@b."    -> <<"a", "@", "b", ".">>
          [] e = "@b.c"    -> <<"@", "b", ".", "c">>
          [] e = "a@.c"    -> <<"a", "@", ".", "c">>
          [] e = "a@b@c.d" -> <<"a", "@", "b", "@", "c", ".", "d">>]

Emails == DOMAIN EmailChars

\* [^\s@]
NotSpaceAt(c) == c # " " /\ c # "@"

\* The test with the pattern /^[^\s@]+@[^\s@]+$/, which asks for no dot.
emailRegexTestNoDot(e) ==
    LET s == EmailChars[e] IN
    \E i \in DOMAIN s :
        /\ 1 < i /\ i < Len(s)
        /\ s[i] = "@"
        /\ \A k \in DOMAIN s : k # i => NotSpaceAt(s[k])

\* /^[^\s@]+@[^\s@]+\.[^\s@]+$/.test(e)
emailRegexTest(e) ==
    LET s == EmailChars[e] IN
    \E i, j \in DOMAIN s :
        /\ 1 < i /\ i + 1 < j /\ j < Len(s)
        /\ s[i] = "@"
        /\ s[j] = "."
        /\ \A k \in DOMAIN s : k # i => NotSpaceAt(s[k])

\* obj without the property f.
Without(obj, f) == [k \in DOMAIN obj \ {f} |-> obj[k]]

\* Well-formed bodies of POST /api/create-payment.
GoodCreateBodies ==
    [userEmail : {"a@b.c"}, userName : {"A"}, userId : UserIds]

\* Bodies of POST /api/create-payment: well-formed, with a required field
\* absent or empty, with a malformed e-mail, or with fields of the
\* client's own (`amount` and `status` are read by no handler).
CreateBodies ==
    LET b == [userEmail |-> "a@b.c", userName |-> "A", userId |-> "u1"] IN
    GoodCreateBodies
    \cup { Without(b, f) : f \in {"userEmail", "userName", "userId"} }
    \cup { [b EXCEPT !.userEmail = e] : e \in (Emails \cup {""}) \ {"a@b.c"} }
    \cup { [b EXCEPT !.userName = ""], [b EXCEPT !.userId = ""] }
    \cup { SetField(SetField(b, "amount", 1), "status", "succeeded") }

\* Well-formed bodies of POST /api/confirm-payment for the intent ids `ids`.
GoodConfirmBodies(ids) == [paymentIntentId : ids, userId : UserIds]

\* Bodies of POST /api/confirm-payment: well-formed, with a required field
\* absent or empty, or with fields of the client's own.
ConfirmBodies(ids) ==
    GoodConfirmBodies(ids)
    \cup UNION { { Without(b, "paymentIntentId"), Without(b, "userId"),
                   [b EXCEPT !.paymentIntentId = ""], [b EXCEPT !.userId = ""],
                   SetField(SetField(b, "amount", 1), "status", "succeeded") } :
                 b \in GoodConfirmBodies({CHOOSE id \in ids : TRUE}) \cap
                       [paymentIntentId : ids, userId : {"u1"}] }

(***************************************************************************)
(* The payment gateway (Stripe), an external collaborator.                 *)
(***************************************************************************)
\* The id of the n-th intent the gateway creates for this process.
IntentId(n) == "pi_" \o ToString(n)

\* An intent the gateway holds that this process did not create.
ForeignIntent == IntentId(0)

GatewayStatuses == {"succeeded", "processing", "canceled"}

GatewayAmounts == {999, 500}

\* What paymentIntents.retrieve may resolve to.
PaymentIntents == [status : GatewayStatuses, amount : GatewayAmounts]

\* What a rejected gateway call throws.
StripeErrors ==
    { [message |-> "stripe failure", type |-> "api_error"],
      [message |-> "connection failure"] }

(***************************************************************************)
(* State.                                                                  *)
(***************************************************************************)
VARIABLES
    transactions,   \* Map: payment intent id -> transaction
    users,          \* Map: user id -> user
    reqs,           \* bag of the requests suspended in a gateway call
    now,            \* the clock read by new Date()
    nextIntent,     \* the gateway has created intents 1..nextIntent-1
    received,       \* number of payment requests received
    answered,       \* number of payment requests answered
    stripeCalls,    \* number of gateway calls issued
    lastResponse,   \* the response sent last
    creates,        \* per user id, the ids of the intents created for it
    confirms,       \* number of confirmations the gateway reported succeeded
    raced,          \* a handler resumed while a request of the same key waited
    racedConfirms   \* a confirmation was applied while another of the same
                    \* user, for another intent, waited

vars == <<transactions, users, reqs, now, nextIntent, received, answered,
          stripeCalls, lastResponse, creates, confirms, raced, racedConfirms>>

Init ==
    /\ transactions = <<>>
    /\ users = <<>>
    /\ reqs = EmptyBag
    /\ now = 0
    /\ nextIntent = 1
    /\ received = 0
    /\ answered = 0
    /\ stripeCalls = 0
    /\ lastResponse = [kind |-> "none", code |-> 0, json |-> <<>>]
    /\ creates = [u \in UserIds |-> <<>>]
    /\ confirms = 0
    /\ raced = FALSE
    /\ racedConfirms = FALSE

\* res.status(code).json(json) of a payment handler
Respond(kind, code, json) ==
    /\ lastResponse' = [kind |-> kind, code |-> code, json |-> json]
    /\ answered' = answered + 1

\* res.status(code).json(json) of a query handler
QueryResponse(kind, code, json) ==
    /\ lastResponse' = [kind |-> kind, code |-> code, json |-> json]
    /\ UNCHANGED answered

\* The handler returns at its await: its destructured locals wait for the
\* gateway with it.
Suspend(kind, locals) ==
    /\ reqs' = reqs (+) SetToBag({[kind |-> kind, locals |-> locals]})
    /\ stripeCalls' = stripeCalls + 1
    /\ UNCHANGED <<lastResponse, answered>>

\* The suspended requests without req, whose handler has finished.
Finish(req) == reqs (-) SetToBag({req})

Awaiting(req, kind) == BagIn(req, reqs) /\ req.kind = kind

\* Another suspended request names the same user or the same intent.
Overlapped(req) ==
    \E o \in BagToSet(Finish(req)) :
        \/ o.locals.userId = req.locals.userId
        \/ /\ o.kind = "confirm"
           /\ req.kind = "confirm"
           /\ o.locals.paymentIntentId = req.locals.paymentIntentId

\* Another suspended confirmation names the same user and another intent.
OverlappedConfirm(req) ==
    \E o \in BagToSet(Finish(req)) :
        /\ o.kind = "confirm"
        /\ o.locals.userId = req.locals.userId
        /\ o.locals.paymentIntentId # req.locals.paymentIntentId

\* Time passes between two handler steps.
Tick ==
    /\ now < MaxClock
    /\ now' = now + 1
    /\ UNCHANGED <<transactions, users, reqs, nextIntent, received, answered,
                   stripeCalls, lastResponse, creates, confirms, raced,
                   racedConfirms>>

(***************************************************************************)
(* POST /api/create-payment                                                *)
(***************************************************************************)
amount == 999

currency == "usd"

CreateMissing(body) ==
    \/ Falsy(GetField(body, "userEmail"))
    \/ Falsy(GetField(body, "userName"))
    \/ Falsy(GetField(body, "userId"))

\* const { userEmail, userName, userId, deviceInfo, appVersion,
\*         purchaseType = 'unlimited_video_selection' } = req.body
CreateLocals(body) ==
    [userEmail |-> GetField(body, "userEmail"),
     userName |-> GetField(body, "userName"),
     userId |-> GetField(body, "userId"),
     deviceInfo |-> GetField(body, "deviceInfo"),
     appVersion |-> GetField(body, "appVersion"),
     purchaseType |-> IF GetField(body, "purchaseType") = Undefined
                      THEN "unlimited_video_selection"
                      ELSE body.purchaseType]

\* The handler whose e-mail check answers 400 without returning.
CreatePaymentNoReturn(body) ==
    /\ received < MaxRequests
    /\ received' = received + 1
    /\ IF CreateMissing(body)
       THEN /\ Respond("create", 400,
                [error |-> "Missing required user information: userEmail, userName, and userId are required"])
            /\ UNCHANGED <<reqs, stripeCalls>>
       ELSE IF ~emailRegexTest(body.userEmail)
       THEN /\ Respond("create", 400, [error |-> "Invalid email format"])
            /\ reqs' = reqs (+) SetToBag({[kind |-> "create",
                                           locals |-> CreateLocals(body)]})
            /\ stripeCalls' = stripeCalls + 1
       ELSE Suspend("create", CreateLocals(body))
    /\ UNCHANGED <<transactions, users, now, nextIntent, creates, confirms, raced,
                   racedConfirms>>

\* The handler up to `await stripe.paymentIntents.create(...)`.
CreatePayment(body) ==
    /\ received < MaxRequests
    /\ received' = received + 1
    /\ IF CreateMissing(body)
       THEN /\ Respond("create", 400,
                [error |-> "Missing required user information: userEmail, userName, and userId are required"])
            /\ UNCHANGED <<reqs, stripeCalls>>
       ELSE IF ~emailRegexTest(body.userEmail)
       THEN /\ Respond("create", 400, [error |-> "Invalid email format"])
            /\ UNCHANGED <<reqs, stripeCalls>>
       ELSE Suspend("create", CreateLocals(body))
    /\ UNCHANGED <<transactions, users, now, nextIntent, creates, confirms, raced,
                   racedConfirms>>

\* The transaction object that stores the amount in dollars, as the
\* intent's metadata does.
transactionDataDollars(locals, id) ==
    [paymentIntentId |-> id,
     userId |-> locals.userId,
     userName |-> locals.userName,
     userEmail |-> locals.userEmail,
     amount |-> amount \div 100,
     currency |-> currency,
     status |-> "pending",
     createdAt |-> now,
     deviceInfo |-> locals.deviceInfo,
     appVersion |-> locals.appVersion,
     purchaseType |-> locals.purchaseType]

\* The transaction object built from the handler's locals and the intent.
transactionData(locals, id) ==
    [paymentIntentId |-> id,
     userId |-> locals.userId,
     userName |-> locals.userName,
     userEmail |-> locals.userEmail,
     amount |-> amount,
     currency |-> currency,
     status |-> "pending",
     createdAt |-> now,
     deviceInfo |-> locals.deviceInfo,
     appVersion |-> locals.appVersion,
     purchaseType |-> locals.purchaseType]

\* The upsert that updates a known user and creates none.
UpsertUserKnownOnly(us, locals) ==
    IF MapHas(us, locals.userId)
    THEN LET existingUser == MapGet(us, locals.userId) IN
         MapSet(us, locals.userId,
                [existingUser EXCEPT
                    !.lastPurchaseAttempt = now,
                    !.totalAttempts = existingUser.totalAttempts + 1])
    ELSE us

\* The upsert that writes a fresh record over a known user, keeping only
\* the count of attempts.
UpsertUserReplace(us, locals) ==
    MapSet(us, locals.userId,
           [userId |-> locals.userId,
            userName |-> locals.userName,
            userEmail |-> locals.userEmail,
            firstSeen |-> now,
            lastPurchaseAttempt |-> now,
            totalAttempts |-> IF MapHas(us, locals.userId)
                              THEN MapGet(us, locals.userId).totalAttempts + 1
                              ELSE 1,
            successfulPurchases |-> 0,
            totalSpent |-> 0])

\* The upsert that stamps a known user without counting the attempt.
UpsertUserNoIncrement(us, locals) ==
    IF MapHas(us, locals.userId)
    THEN MapSet(us, locals.userId,
                [MapGet(us, locals.userId) EXCEPT !.lastPurchaseAttempt = now])
    ELSE MapSet(us, locals.userId,
                [userId |-> locals.userId,
                 userName |-> locals.userName,
                 userEmail |-> locals.userEmail,
                 firstSeen |-> now,
                 lastPurchaseAttempt |-> now,
                 totalAttempts |-> 1,
                 successfulPurchases |-> 0,
                 totalSpent |-> 0])

\* The users Map after the upsert of the user of `locals`.
UpsertUser(us, locals) ==
    IF MapHas(us, locals.userId)
    THEN LET existingUser == MapGet(us, locals.userId) IN
         MapSet(us, locals.userId,
                [existingUser EXCEPT
                    !.lastPurchaseAttempt = now,
                    !.totalAttempts = existingUser.totalAttempts + 1])
    ELSE MapSet(us, locals.userId,
                [userId |-> locals.userId,
                 userName |-> locals.userName,
                 userEmail |-> locals.userEmail,
                 firstSeen |-> now,
                 lastPurchaseAttempt |-> now,
                 totalAttempts |-> 1,
                 successfulPurchases |-> 0,
                 totalSpent |-> 0])

\* The gateway created the intent: the handler resumes after the await.
CreateResume(req) ==
    /\ Awaiting(req, "create")
    /\ LET locals == req.locals
           id == IntentId(nextIntent) IN
       /\ transactions' = MapSet(transactions, id, transactionData(locals, id))
       /\ users' = UpsertUser(users, locals)
       /\ Respond("create", 200,
                    [paymentIntentId |-> id, amount |-> amount,
                     currency |-> currency,
                     userDetails |-> [userId |-> locals.userId,
                                      userName |-> locals.userName,
                                      userEmail |-> locals.userEmail]])
       /\ creates' = [creates EXCEPT ![locals.userId] = Append(@, id)]
       /\ raced' = (raced \/ Overlapped(req))
    /\ reqs' = Finish(req)
    /\ nextIntent' = nextIntent + 1
    /\ UNCHANGED <<now, received, stripeCalls, confirms, racedConfirms>>

\* The catch block that answers as the confirm handler's does.
CreateFailServerError(req, error) ==
    /\ Awaiting(req, "create")
    /\ Respond("create", 500, [error |-> error.message,
                               type |-> "payment_creation_error"])
    /\ reqs' = Finish(req)
    /\ UNCHANGED <<transactions, users, now, nextIntent, received, stripeCalls,
                   creates, confirms, raced,
                   racedConfirms>>

\* The gateway call was rejected: the catch block answers.
CreateFail(req, error) ==
    /\ Awaiting(req, "create")
    /\ Respond("create", 400,
                    [error |-> error.message,
                     type |-> IF "type" \in DOMAIN error THEN error.type
                              ELSE "payment_creation_error"])
    /\ reqs' = Finish(req)
    /\ UNCHANGED <<transactions, users, now, nextIntent, received,
                   stripeCalls, creates, confirms, raced,
                   racedConfirms>>

(***************************************************************************)
(* POST /api/confirm-payment                                               *)
(***************************************************************************)
ConfirmMissing(body) ==
    \/ Falsy(GetField(body, "paymentIntentId"))
    \/ Falsy(GetField(body, "userId"))

\* The intent ids a caller can name: the foreign one and those created.
KnownIntents == {ForeignIntent} \cup {IntentId(n) : n \in 1..(nextIntent - 1)}

\* const { paymentIntentId, userId } = req.body
ConfirmLocals(body) ==
    [paymentIntentId |-> GetField(body, "paymentIntentId"),
     userId |-> GetField(body, "userId")]

\* The handler up to `await stripe.paymentIntents.retrieve(...)`.
ConfirmPayment(body) ==
    /\ received < MaxRequests
    /\ received' = received + 1
    /\ IF ConfirmMissing(body)
       THEN /\ Respond("confirm", 400,
                [error |-> "Missing paymentIntentId or userId"])
            /\ UNCHANGED <<reqs, stripeCalls>>
       ELSE Suspend("confirm", ConfirmLocals(body))
    /\ UNCHANGED <<transactions, users, now, nextIntent, creates, confirms, raced,
                   racedConfirms>>

\* The test that takes every status but a cancellation for a success.
SucceededUnlessCanceled(paymentIntent) == paymentIntent.status # "canceled"

\* paymentIntent.status === 'succeeded'
Succeeded(paymentIntent) == paymentIntent.status = "succeeded"

\* The update that copies the gateway's status name into the transaction.
CompleteTransactionGatewayStatus(txs, id) ==
    IF MapHas(txs, id)
    THEN MapSet(txs, id,
                SetField([MapGet(txs, id) EXCEPT !.status = "succeeded"],
                         "completedAt", now))
    ELSE txs

\* The update that moves the completed transaction out of the Map.
CompleteTransactionArchive(txs, id) ==
    LET Kept(e) == e.key # id IN SelectSeq(txs, Kept)

\* The update that stores a completed record when none is stored.
CompleteTransactionUpsert(txs, id) ==
    IF MapHas(txs, id)
    THEN MapSet(txs, id, SetField([MapGet(txs, id) EXCEPT !.status = "completed"],
                                  "completedAt", now))
    ELSE MapSet(txs, id, [paymentIntentId |-> id, status |-> "completed",
                          completedAt |-> now])

\* The transactions Map after the update of the transaction under `id`.
CompleteTransaction(txs, id) ==
    IF MapHas(txs, id)
    THEN LET transaction == MapGet(txs, id) IN
         MapSet(txs, id,
                SetField([transaction EXCEPT !.status = "completed"],
                         "completedAt", now))
    ELSE txs

\* The update that writes the aggregates of a first purchase, as computed
\* from a user record read before any other confirmation was applied.
CreditUserOverwrite(us, userId, paymentIntent) ==
    IF MapHas(us, userId)
    THEN LET user == MapGet(us, userId) IN
         MapSet(us, userId,
                SetField(SetField(
                    [user EXCEPT
                        !.successfulPurchases = 1,
                        !.totalSpent = paymentIntent.amount],
                    "lastSuccessfulPurchase", now),
                    "isPremium", TRUE))
    ELSE us

\* The update that grants premium only for a payment of the full price.
CreditUserPremiumByAmount(us, userId, paymentIntent) ==
    IF MapHas(us, userId)
    THEN LET user == MapGet(us, userId) IN
         MapSet(us, userId,
                SetField(SetField(
                    [user EXCEPT
                        !.successfulPurchases = user.successfulPurchases + 1,
                        !.totalSpent = user.totalSpent + paymentIntent.amount],
                    "lastSuccessfulPurchase", now),
                    "isPremium", paymentIntent.amount >= amount))
    ELSE us

\* The update that counts the purchase but leaves the premium flag unset.
CreditUserNoPremium(us, userId, paymentIntent) ==
    IF MapHas(us, userId)
    THEN LET user == MapGet(us, userId) IN
         MapSet(us, userId,
                SetField(
                    [user EXCEPT
                        !.successfulPurchases = user.successfulPurchases + 1,
                        !.totalSpent = user.totalSpent + paymentIntent.amount],
                    "lastSuccessfulPurchase", now))
    ELSE us

\* The users Map after the update of the user under `userId`.
CreditUser(us, userId, paymentIntent) ==
    IF MapHas(us, userId)
    THEN LET user == MapGet(us, userId) IN
         MapSet(us, userId,
                SetField(SetField(
                    [user EXCEPT
                        !.successfulPurchases = user.successfulPurchases + 1,
                        !.totalSpent = user.totalSpent + paymentIntent.amount],
                    "lastSuccessfulPurchase", now),
                    "isPremium", TRUE))
    ELSE us

\* The handler that marks the transaction before it looks at the status.
ConfirmResumeMarkFirst(req, paymentIntent) ==
    /\ Awaiting(req, "confirm")
    /\ transactions' = CompleteTransaction(transactions, req.locals.paymentIntentId)
    /\ IF Succeeded(paymentIntent)
       THEN /\ users' = CreditUser(users, req.locals.userId, paymentIntent)
            /\ Respond("confirm", 200,
                    [success |-> TRUE,
                     message |-> "Payment confirmed successfully",
                     paymentDetails |->
                        [paymentIntentId |-> req.locals.paymentIntentId,
                         amount |-> paymentIntent.amount,
                         status |-> paymentIntent.status]])
            /\ confirms' = confirms + 1
            /\ raced' = (raced \/ Overlapped(req))
            /\ racedConfirms' = (racedConfirms \/ OverlappedConfirm(req))
       ELSE /\ Respond("confirm", 400,
                    [error |-> "Payment not completed",
                     status |-> paymentIntent.status])
            /\ UNCHANGED <<users, confirms, raced, racedConfirms>>
    /\ reqs' = Finish(req)
    /\ UNCHANGED <<now, nextIntent, received, stripeCalls, creates>>

\* The gateway returned the intent: the handler resumes after the await.
ConfirmResume(req, paymentIntent) ==
    /\ Awaiting(req, "confirm")
    /\ LET paymentIntentId == req.locals.paymentIntentId
           userId == req.locals.userId IN
       IF Succeeded(paymentIntent)
       THEN /\ transactions' = CompleteTransaction(transactions, paymentIntentId)
            /\ users' = CreditUser(users, userId, paymentIntent)
            /\ Respond("confirm", 200,
                    [success |-> TRUE,
                     message |-> "Payment confirmed successfully",
                     paymentDetails |->
                        [paymentIntentId |-> paymentIntentId,
                         amount |-> paymentIntent.amount,
                         status |-> paymentIntent.status]])
            /\ confirms' = confirms + 1
            /\ raced' = (raced \/ Overlapped(req))
            /\ racedConfirms' = (racedConfirms \/ OverlappedConfirm(req))
       ELSE /\ Respond("confirm", 400,
                    [error |-> "Payment not completed",
                     status |-> paymentIntent.status])
            /\ UNCHANGED <<transactions, users, confirms, raced,
                           racedConfirms>>
    /\ reqs' = Finish(req)
    /\ UNCHANGED <<now, nextIntent, received, stripeCalls, creates>>

\* The gateway call was rejected: the catch block answers.
ConfirmFail(req, error) ==
    /\ Awaiting(req, "confirm")
    /\ Respond("confirm", 500,
                    [error |-> error.message,
                     type |-> "payment_confirmation_error"])
    /\ reqs' = Finish(req)
    /\ UNCHANGED <<transactions, users, now, nextIntent, received,
                   stripeCalls, creates, confirms, raced,
                   racedConfirms>>

(***************************************************************************)
(* GET /api/user/:userId and GET /api/admin/transactions                   *)
(* arr.filter(pred) is SelectSeq(arr, pred).                               *)
(***************************************************************************)
\* x placed in an oldest-first array behind every element not newer than it.
RECURSIVE InsertOldestFirst(_, _)
InsertOldestFirst(arr, x) ==
    IF arr = <<>> THEN <<x>>
    ELSE IF x.createdAt - Head(arr).createdAt >= 0
         THEN <<Head(arr)>> \o InsertOldestFirst(Tail(arr), x)
         ELSE <<x>> \o arr

\* x placed in a newest-first array behind every element not older than it.
RECURSIVE InsertNewestFirst(_, _)
InsertNewestFirst(arr, x) ==
    IF arr = <<>> THEN <<x>>
    ELSE IF Head(arr).createdAt - x.createdAt >= 0
         THEN <<Head(arr)>> \o InsertNewestFirst(Tail(arr), x)
         ELSE <<x>> \o arr

\* arr.sort((a, b) => new Date(b.createdAt) - new Date(a.createdAt)),
\* a stable sort.
RECURSIVE SortNewestFirst(_)
SortNewestFirst(arr) ==
    IF arr = <<>> THEN <<>>
    ELSE InsertNewestFirst(SortNewestFirst(SubSeq(arr, 1, Len(arr) - 1)),
                           arr[Len(arr)])

\* arr.reduce((sum, t) => sum + t.amount, 0)
RECURSIVE SumAmount(_)
SumAmount(arr) ==
    IF arr = <<>> THEN 0
    ELSE SumAmount(SubSeq(arr, 1, Len(arr) - 1)) + arr[Len(arr)].amount

\* The test against the gateway's name for a finished payment.
IsCompletedGatewayName(t) == t.status = "succeeded"

IsCompleted(t) == t.status = "completed"

\* The test against the gateway's name for an unfinished payment.
IsPendingGatewayName(t) == t.status = "processing"

IsPending(t) == t.status = "pending"

\* The path parameters of GET /api/user/:userId.
UserParams == UserIds \cup {"u0"}

\* The body of the 200 response of GET /api/user/:userId.
GetUserResponse(userId) ==
    LET userData == MapGet(users, userId)
        OfUser(t) == t.userId = userId
        userTransactions == SortNewestFirst(SelectSeq(MapValues(transactions), OfUser))
    IN  [user |-> userData,
         transactions |-> userTransactions,
         summary |->
            [totalTransactions |-> Len(userTransactions),
             successfulTransactions |-> Len(SelectSeq(userTransactions, IsCompleted)),
             totalSpent |-> userData.totalSpent,
             isPremium |-> IF "isPremium" \in DOMAIN userData
                           THEN userData.isPremium ELSE FALSE]]

\* The handler that answers an unknown user with a fresh empty record.
GetUserOrDefault(userId) ==
    /\ IF ~MapHas(users, userId)
       THEN /\ users' = MapSet(users, userId,
                    [userId |-> userId, totalAttempts |-> 0,
                     successfulPurchases |-> 0, totalSpent |-> 0])
            /\ QueryResponse("getUser", 200,
                    [user |-> MapGet(users', userId), transactions |-> <<>>,
                     summary |-> [totalTransactions |-> 0,
                                  successfulTransactions |-> 0,
                                  totalSpent |-> 0, isPremium |-> FALSE]])
       ELSE /\ QueryResponse("getUser", 200, GetUserResponse(userId))
            /\ UNCHANGED users
    /\ UNCHANGED <<transactions, reqs, now, nextIntent, received,
                   stripeCalls, creates, confirms, raced,
                   racedConfirms>>

GetUser(userId) ==
    /\ IF ~MapHas(users, userId)
       THEN QueryResponse("getUser", 404, [error |-> "User not found"])
       ELSE QueryResponse("getUser", 200, GetUserResponse(userId))
    /\ UNCHANGED <<transactions, users, reqs, now, nextIntent, received,
                   stripeCalls, creates, confirms, raced,
                   racedConfirms>>

\* The body of the response of GET /api/admin/transactions.
ListResponse ==
    LET allTransactions == SortNewestFirst(MapValues(transactions))
    IN  [transactions |-> allTransactions,
         summary |->
            [totalTransactions |-> Len(allTransactions),
             completedTransactions |-> Len(SelectSeq(allTransactions, IsCompleted)),
             pendingTransactions |-> Len(SelectSeq(allTransactions, IsPending)),
             totalRevenue |-> SumAmount(SelectSeq(allTransactions, IsCompleted)),
             uniqueUsers |-> Cardinality({allTransactions[i].userId :
                                            i \in DOMAIN allTransactions})]]

\* The handler that sorts the stored entries themselves.
ListAllTransactionsSortInPlace ==
    /\ QueryResponse("listAll", 200, ListResponse)
    /\ transactions' = [i \in DOMAIN transactions |->
            [key |-> ListResponse.transactions[i].paymentIntentId,
             value |-> ListResponse.transactions[i]]]
    /\ UNCHANGED <<users, reqs, now, nextIntent, received,
                   stripeCalls, creates, confirms, raced,
                   racedConfirms>>

ListAllTransactions ==
    /\ QueryResponse("listAll", 200, ListResponse)
    /\ UNCHANGED <<transactions, users, reqs, now, nextIntent, received,
                   stripeCalls, creates, confirms, raced,
                   racedConfirms>>

(***************************************************************************)
(* The system.                                                             *)
(***************************************************************************)
Next ==
    \/ Tick
    \/ \E body \in CreateBodies : CreatePayment(body)
    \/ \E req \in BagToSet(reqs) : CreateResume(req)
    \/ \E req \in BagToSet(reqs), error \in StripeErrors : CreateFail(req, error)
    \/ \E body \in ConfirmBodies(KnownIntents) : ConfirmPayment(body)
    \/ \E req \in BagToSet(reqs), paymentIntent \in PaymentIntents :
            ConfirmResume(req, paymentIntent)
    \/ \E req \in BagToSet(reqs), error \in StripeErrors : ConfirmFail(req, error)
    \/ \E userId \in UserParams : GetUser(userId)
    \/ ListAllTransactions

Spec == Init /\ [][Next]_vars

(***************************************************************************)
(* Properties.                                                             *)
(***************************************************************************)
Tx(txs, id) == MapGet(txs, id)

User(us, userId) == MapGet(us, userId)

\* Exactly one create has succeeded so far: for user u, returning intent p.
OnlyCreate(u, p) ==
    /\ creates[u] = <<p>>
    /\ \A v \in UserIds \ {u} : creates[v] = <<>>

\* The ledger after one create for u and one confirmation of p for u.
CreatedAndConfirmed(txs, us, u, p) ==
    /\ MapHas(txs, p)
    /\ Tx(txs, p).status = "completed"
    /\ "completedAt" \in DOMAIN Tx(txs, p)
    /\ MapHas(us, u)
    /\ User(us, u).successfulPurchases = 1
    /\ User(us, u).totalSpent = 999
    /\ "isPremium" \in DOMAIN User(us, u)
    /\ User(us, u).isPremium = TRUE

\* C1: when one create for user u, answered with intent p, is the only one
\* so far and no confirmation has succeeded yet, the confirmation of (p, u)
\* for which the gateway reports succeeded with amount 999 leaves p
\* completed with completedAt set, and u with successfulPurchases = 1,
\* totalSpent = 999 and isPremium = true.
C1_CreateThenConfirm ==
    [][\A req \in BagToSet(reqs) :
        ( /\ req.kind = "confirm"
          /\ OnlyCreate(req.locals.userId, req.locals.paymentIntentId)
          /\ confirms = 0
          /\ ConfirmResume(req, [status |-> "succeeded", amount |-> 999]) )
        => CreatedAndConfirmed(transactions', users', req.locals.userId,
                               req.locals.paymentIntentId)]_vars

C1_Witness ==
    /\ OnlyCreate("u1", IntentId(1))
    /\ confirms = 1
    /\ lastResponse.kind = "confirm"
    /\ lastResponse.code = 200
    /\ CreatedAndConfirmed(transactions, users, "u1", IntentId(1))

\* C2: every user id with at least one successful create has a user record
\* whose totalAttempts is the number of its successful creates, also when
\* the creates overlapped in the gateway call.
C2_TotalAttempts ==
    \A u \in UserIds :
        Len(creates[u]) > 0 =>
            /\ MapHas(users, u)
            /\ User(users, u).totalAttempts = Len(creates[u])

\* Two creates for the same new user were suspended together and both
\* succeeded.
C2_Witness ==
    /\ raced
    /\ received = 2
    /\ Len(creates["u1"]) = 2
    /\ User(users, "u1").totalAttempts = 2

\* C3: a confirmation for which the gateway reports a status other than
\* succeeded changes neither collection and answers 400 with that status.
C3_NotSucceededNoop ==
    [][\A req \in BagToSet(reqs), paymentIntent \in PaymentIntents :
        ( /\ req.kind = "confirm"
          /\ paymentIntent.status # "succeeded"
          /\ ConfirmResume(req, paymentIntent) )
        => /\ transactions' = transactions
           /\ users' = users
           /\ lastResponse' = [kind |-> "confirm", code |-> 400,
                               json |-> [error |-> "Payment not completed",
                                         status |-> paymentIntent.status]]]_vars

\* A confirmation of a stored transaction was refused with the gateway's
\* status.
C3_Witness ==
    /\ lastResponse.kind = "confirm"
    /\ lastResponse.code = 400
    /\ "status" \in DOMAIN lastResponse.json
    /\ lastResponse.json.status = "processing"
    /\ transactions # <<>>
    /\ users # <<>>
    /\ confirms = 0

\* The transaction under id is stored and completed.
Completed(txs, id) == MapHas(txs, id) /\ Tx(txs, id).status = "completed"

\* C4: a confirmation the gateway reports succeeded for a paymentRef whose
\* transaction is already completed leaves every user's successfulPurchases
\* and totalSpent as they were.
C4_ConfirmIdempotent ==
    [][\A req \in BagToSet(reqs), paymentIntent \in PaymentIntents :
        ( /\ req.kind = "confirm"
          /\ paymentIntent.status = "succeeded"
          /\ Completed(transactions, req.locals.paymentIntentId)
          /\ ConfirmResume(req, paymentIntent) )
        => \A u \in MapKeys(users) :
            /\ MapHas(users', u)
            /\ User(users', u).successfulPurchases = User(users, u).successfulPurchases
            /\ User(users', u).totalSpent = User(users, u).totalSpent]_vars

\* C5: a transaction becomes completed only in a step of a confirmation of
\* its own paymentRef to which the gateway returned the status succeeded.
C5_CompletedOnlyByGateway ==
    [][\A i \in DOMAIN transactions' :
        ( /\ transactions'[i].value.status = "completed"
          /\ ~Completed(transactions, transactions'[i].key) )
        => \E req \in BagToSet(reqs), paymentIntent \in PaymentIntents :
            /\ req.kind = "confirm"
            /\ req.locals.paymentIntentId = transactions'[i].key
            /\ paymentIntent.status = "succeeded"
            /\ ConfirmResume(req, paymentIntent)]_vars

\* One succeeded confirmation has completed a transaction while another
\* transaction stays pending.
C5_Witness ==
    /\ \E i \in DOMAIN transactions : transactions[i].value.status = "completed"
    /\ \E i \in DOMAIN transactions : transactions[i].value.status = "pending"
    /\ confirms = 1

\* C6: every transaction's status is pending or completed, a transaction
\* is pending when it is inserted, and a completed transaction stays
\* stored and completed.
C6_StatusMonotonic ==
    /\ [](\A i \in DOMAIN transactions :
            transactions[i].value.status \in {"pending", "completed"})
    /\ [][\A i \in DOMAIN transactions' :
            /\ ~MapHas(transactions, transactions'[i].key)
                    => transactions'[i].value.status = "pending"
            /\ Completed(transactions, transactions'[i].key)
                    => transactions'[i].value.status = "completed"]_vars
    /\ [][\A id \in MapKeys(transactions) :
            Completed(transactions, id) => Completed(transactions', id)]_vars

\* A transaction was confirmed after a later one was inserted: the first
\* is completed, the later one is still pending.
C6_Witness ==
    /\ Len(transactions) = 2
    /\ transactions[1].value.status = "completed"
    /\ transactions[2].value.status = "pending"
    /\ transactions[1].value.completedAt > transactions[2].value.createdAt

\* C7: completedAt is absent while a transaction is pending, and once set
\* it keeps its value.
C7_CompletedAtOnce ==
    /\ [](\A i \in DOMAIN transactions :
            transactions[i].value.status = "pending"
                => "completedAt" \notin DOMAIN transactions[i].value)
    /\ [][\A id \in MapKeys(transactions) :
            "completedAt" \in DOMAIN Tx(transactions, id)
                => /\ MapHas(transactions', id)
                   /\ "completedAt" \in DOMAIN Tx(transactions', id)
                   /\ Tx(transactions', id).completedAt
                        = Tx(transactions, id).completedAt]_vars

\* A required field of a request body is absent or empty.
Lacks(body, f) == f \notin DOMAIN body \/ body[f] = ""

\* The e-mail strings of the local@domain.tld shape among the inputs.
ShapedEmails == {"a@b.c"}

BadCreateBody(body) ==
    \/ Lacks(body, "userEmail")
    \/ Lacks(body, "userName")
    \/ Lacks(body, "userId")
    \/ body.userEmail \notin ShapedEmails

BadConfirmBody(body) ==
    \/ Lacks(body, "paymentIntentId")
    \/ Lacks(body, "userId")

\* The step answered 400 with a validation error, called no gateway and
\* changed neither collection.
Rejected(kind, errors) ==
    /\ transactions' = transactions
    /\ users' = users
    /\ stripeCalls' = stripeCalls
    /\ reqs' = reqs
    /\ lastResponse'.kind = kind
    /\ lastResponse'.code = 400
    /\ DOMAIN lastResponse'.json = {"error"}
    /\ lastResponse'.json.error \in errors

\* C8: a create with userEmail, userName or userId missing or with an
\* e-mail not of the local@domain.tld shape, and a confirm with
\* paymentIntentId or userId missing, answers 400 with a validation error,
\* calls no gateway and changes neither collection.
C8_ValidationRejects ==
    [][ /\ \A body \in CreateBodies :
            (BadCreateBody(body) /\ CreatePayment(body))
            => Rejected("create",
                {"Missing required user information: userEmail, userName, and userId are required",
                 "Invalid email format"})
        /\ \A body \in ConfirmBodies(KnownIntents) :
            (BadConfirmBody(body) /\ ConfirmPayment(body))
            => Rejected("confirm", {"Missing paymentIntentId or userId"}) ]_vars

\* A create with a malformed e-mail was rejected while the ledger held
\* records.
C8_Witness ==
    /\ lastResponse.kind = "create"
    /\ lastResponse.code = 400
    /\ lastResponse.json = [error |-> "Invalid email format"]
    /\ transactions # <<>>
    /\ users # <<>>
    /\ stripeCalls = 1

\* C9: the user query for a user id without a record answers 404 and
\* leaves the users collection (and the transactions) as it was.
C9_UnknownUserNotFound ==
    [][\A userId \in UserParams :
        (~MapHas(users, userId) /\ GetUser(userId))
        => /\ lastResponse' = [kind |-> "getUser", code |-> 404,
                               json |-> [error |-> "User not found"]]
           /\ users' = users
           /\ transactions' = transactions]_vars

\* An unknown user was asked for while other users had records.
C9_Witness ==
    /\ lastResponse.kind = "getUser"
    /\ lastResponse.code = 404
    /\ users # <<>>

\* The sum of amount over the entries of the transactions Map at the
\* positions S.
RECURSIVE AmountOver(_)
AmountOver(S) ==
    IF S = {} THEN 0
    ELSE LET i == CHOOSE j \in S : TRUE
         IN  transactions[i].value.amount + AmountOver(S \ {i})

CompletedRevenue ==
    AmountOver({i \in DOMAIN transactions :
                    transactions[i].value.status = "completed"})

\* C10: the totalRevenue the admin listing reports, in any state and in the
\* response it has just sent, is the sum of amount over the completed
\* transactions.
C10_RevenueIsCompletedSum ==
    /\ ListResponse.summary.totalRevenue = CompletedRevenue
    /\ lastResponse.kind = "listAll"
        => lastResponse.json.summary.totalRevenue = CompletedRevenue

\* The listing was answered over a ledger with a pending and a completed
\* transaction.
C10_Witness ==
    /\ lastResponse.kind = "listAll"
    /\ lastResponse.json.summary.totalRevenue = 999
    /\ \E i \in DOMAIN transactions : transactions[i].value.status = "completed"
    /\ \E i \in DOMAIN transactions : transactions[i].value.status = "pending"

\* C11: every stored transaction has amount 999 and currency usd, and a
\* stored transaction keeps both in every step.
C11_FixedPrice ==
    /\ [](\A i \in DOMAIN transactions :
            /\ transactions[i].value.amount = 999
            /\ transactions[i].value.currency = "usd")
    /\ [][\A id \in MapKeys(transactions) :
            /\ MapHas(transactions', id)
            /\ Tx(transactions', id).amount = Tx(transactions, id).amount
            /\ Tx(transactions', id).currency = Tx(transactions, id).currency]_vars

\* A transaction was completed by a confirmation for which the gateway
\* reported the amount 500, credited to its user.
C11_Witness ==
    /\ Len(transactions) = 1
    /\ transactions[1].value.status = "completed"
    /\ transactions[1].value.amount = 999
    /\ confirms = 1
    /\ MapHas(users, transactions[1].value.userId)
    /\ User(users, transactions[1].value.userId).totalSpent = 500

\* C12: in every state between two handler steps, each stored transaction
\* names a user id that has a user record.
C12_TransactionHasUser ==
    \A i \in DOMAIN transactions : MapHas(users, transactions[i].value.userId)

\* A confirmation of a stored transaction is suspended, naming the
\* transaction's user, while a create for a new user is suspended too.
C12_Witness ==
    /\ \E req \in BagToSet(reqs) :
        /\ req.kind = "confirm"
        /\ MapHas(transactions, req.locals.paymentIntentId)
        /\ Tx(transactions, req.locals.paymentIntentId).userId = req.locals.userId
    /\ \E req \in BagToSet(reqs) :
        /\ req.kind = "create"
        /\ ~MapHas(users, req.locals.userId)

\* The two user records differ at most in lastPurchaseAttempt and
\* totalAttempts, the second counting one attempt more.
OneMoreAttempt(old, new) ==
    /\ DOMAIN new = DOMAIN old
    /\ \A f \in DOMAIN old \ {"lastPurchaseAttempt", "totalAttempts"} :
            new[f] = old[f]
    /\ new.totalAttempts = old.totalAttempts + 1

\* C13: a successful create for a user id that has a record changes only
\* lastPurchaseAttempt and totalAttempts (+1) of that record, and no other
\* user record.
C13_CreateKeepsAggregates ==
    [][\A req \in BagToSet(reqs) :
        ( /\ req.kind = "create"
          /\ MapHas(users, req.locals.userId)
          /\ CreateResume(req) )
        => /\ Len(users') = Len(users)
           /\ \A i \in DOMAIN users :
                /\ users'[i].key = users[i].key
                /\ IF users[i].key = req.locals.userId
                   THEN OneMoreAttempt(users[i].value, users'[i].value)
                   ELSE users'[i].value = users[i].value]_vars

\* A premium user made a second create at a later time.
C13_Witness ==
    /\ lastResponse.kind = "create"
    /\ lastResponse.code = 200
    /\ \E i \in DOMAIN users :
        /\ users[i].value.totalAttempts = 2
        /\ users[i].value.successfulPurchases = 1
        /\ "isPremium" \in DOMAIN users[i].value
        /\ users[i].value.lastPurchaseAttempt > users[i].value.firstSeen

Premium(us, u) ==
    /\ MapHas(us, u)
    /\ "isPremium" \in DOMAIN User(us, u)
    /\ User(us, u).isPremium = TRUE

\* C14: a user whose isPremium is true keeps it true in every step.
C14_PremiumNeverReset ==
    [][\A u \in MapKeys(users) : Premium(users, u) => Premium(users', u)]_vars

\* A premium user was credited a second payment, of the amount 500.
C14_Witness ==
    /\ Premium(users, "u1")
    /\ User(users, "u1").successfulPurchases = 2
    /\ User(users, "u1").totalSpent = 1499

Credited(user) ==
    \/ ("isPremium" \in DOMAIN user /\ user.isPremium = TRUE)
    \/ user.successfulPurchases > 0
    \/ user.totalSpent > 0

\* C15: a user is premium or has successfulPurchases or totalSpent above 0
\* only if the ledger holds a completed transaction of that user, and a
\* confirmation changes a user record only when a transaction is stored
\* under its paymentIntentId and that user owns it.
C15_CreditedOnlyOwner ==
    /\ [](\A i \in DOMAIN users :
            Credited(users[i].value)
            => \E j \in DOMAIN transactions :
                /\ transactions[j].value.userId = users[i].key
                /\ transactions[j].value.status = "completed")
    /\ [][\A req \in BagToSet(reqs), paymentIntent \in PaymentIntents :
            ( /\ req.kind = "confirm"
              /\ ConfirmResume(req, paymentIntent) )
            => \A i \in DOMAIN users :
                users'[i] # users[i]
                => /\ MapHas(transactions, req.locals.paymentIntentId)
                   /\ Tx(transactions, req.locals.paymentIntentId).userId = users[i].key]_vars

\* C16: a confirmation for which the gateway reports succeeded answers 200
\* with success true whether or not a transaction or a user is stored; it
\* leaves an absent record absent, completes a stored transaction, credits
\* a stored user, and adds no key to either collection.
C16_ConfirmSkipsAbsent ==
    [][\A req \in BagToSet(reqs), paymentIntent \in PaymentIntents :
        ( /\ req.kind = "confirm"
          /\ paymentIntent.status = "succeeded"
          /\ ConfirmResume(req, paymentIntent) )
        => LET id == req.locals.paymentIntentId
               u == req.locals.userId IN
           /\ lastResponse'.kind = "confirm"
           /\ lastResponse'.code = 200
           /\ lastResponse'.json.success = TRUE
           /\ MapKeys(transactions') = MapKeys(transactions)
           /\ MapKeys(users') = MapKeys(users)
           /\ IF MapHas(transactions, id)
              THEN Tx(transactions', id).status = "completed"
              ELSE transactions' = transactions
           /\ IF MapHas(users, u)
              THEN /\ User(users', u).successfulPurchases
                        = User(users, u).successfulPurchases + 1
                   /\ User(users', u).totalSpent
                        = User(users, u).totalSpent + paymentIntent.amount
              ELSE users' = users]_vars

\* A succeeded confirmation was answered 200 and completed a stored
\* transaction for a user id without a record: no user is credited.
C16_Witness ==
    /\ lastResponse.kind = "confirm"
    /\ lastResponse.code = 200
    /\ confirms = 1
    /\ Len(users) = 1
    /\ \E j \in DOMAIN transactions : transactions[j].value.status = "completed"
    /\ \A i \in DOMAIN users : ~Credited(users[i].value)

Ledger == <<transactions, users>>

\* C17: a request whose gateway call throws is answered with the gateway's
\* message, 400 from create and 500 from confirm, and none of its steps
\* changes the ledger: neither the step up to the gateway call nor the
\* catch block.
C17_GatewayFailure ==
    [][/\ \A body \in CreateBodies : CreatePayment(body) => Ledger' = Ledger
       /\ \A body \in ConfirmBodies(KnownIntents) :
            ConfirmPayment(body) => Ledger' = Ledger
       /\ \A req \in BagToSet(reqs), error \in StripeErrors :
            /\ CreateFail(req, error)
               => /\ Ledger' = Ledger
                  /\ lastResponse'.kind = "create"
                  /\ lastResponse'.code = 400
                  /\ lastResponse'.json.error = error.message
            /\ ConfirmFail(req, error)
               => /\ Ledger' = Ledger
                  /\ lastResponse'.kind = "confirm"
                  /\ lastResponse'.code = 500
                  /\ lastResponse'.json.error = error.message]_vars

\* A create for a user with a record was answered 400 with the gateway's
\* message: the user's one earlier attempt is all the ledger counts.
C17_Witness ==
    /\ lastResponse.kind = "create"
    /\ lastResponse.code = 400
    /\ \E error \in StripeErrors : lastResponse.json.error = error.message
    /\ received = 2
    /\ answered = 2
    /\ Len(transactions) = 1
    /\ Len(users) = 1
    /\ users[1].value.totalAttempts = 1

\* C18: every applied confirmation adds 1 to successfulPurchases and the
\* gateway's amount to totalSpent of the user record as it is when the
\* handler writes, and every successful create adds 1 to its totalAttempts,
\* each leaving the other's fields as they are: no request's update is
\* undone by another request that was suspended at the same time.
C18_NoLostUpdate ==
    [][/\ \A req \in BagToSet(reqs), paymentIntent \in PaymentIntents :
            ( /\ req.kind = "confirm"
              /\ paymentIntent.status = "succeeded"
              /\ MapHas(users, req.locals.userId)
              /\ ConfirmResume(req, paymentIntent) )
            => LET old == User(users, req.locals.userId)
                   new == User(users', req.locals.userId) IN
               /\ new.successfulPurchases = old.successfulPurchases + 1
               /\ new.totalSpent = old.totalSpent + paymentIntent.amount
               /\ new.totalAttempts = old.totalAttempts
       /\ \A req \in BagToSet(reqs) :
            ( /\ req.kind = "create"
              /\ MapHas(users, req.locals.userId)
              /\ CreateResume(req) )
            => LET old == User(users, req.locals.userId)
                   new == User(users', req.locals.userId) IN
               /\ new.totalAttempts = old.totalAttempts + 1
               /\ new.successfulPurchases = old.successfulPurchases
               /\ new.totalSpent = old.totalSpent]_vars

\* After one create, two confirmations of the same user for two different
\* intents were suspended together and both applied, with the gateway
\* amounts 999 and 500: the user counts 2 purchases and 1499 spent.
C18_Witness ==
    /\ racedConfirms
    /\ received = 3
    /\ answered = 3
    /\ confirms = 2
    /\ Len(users) = 1
    /\ users[1].value.totalAttempts = 1
    /\ users[1].value.successfulPurchases = 2
    /\ users[1].value.totalSpent = 1499

\* C19: every record is stored under the key equal to its own
\* paymentIntentId or userId, once per key, and no step removes a key from
\* either collection.
C19_AppendOnly ==
    /\ [](/\ \A i \in DOMAIN transactions :
                /\ transactions[i].key = transactions[i].value.paymentIntentId
                /\ \A j \in DOMAIN transactions :
                        transactions[j].key = transactions[i].key => j = i
          /\ \A i \in DOMAIN users :
                /\ users[i].key = users[i].value.userId
                /\ \A j \in DOMAIN users : users[j].key = users[i].key => j = i)
    /\ [][/\ MapKeys(transactions) \subseteq MapKeys(transactions')
          /\ MapKeys(users) \subseteq MapKeys(users')]_vars

\* Two users each have a transaction, one of them updated to completed.
C19_Witness ==
    /\ Len(users) = 2
    /\ Len(transactions) = 2
    /\ \E i \in DOMAIN transactions : transactions[i].value.status = "completed"
    /\ \E i \in DOMAIN transactions : transactions[i].value.status = "pending"

OwnTransactions(userId) ==
    {transactions[i].value : i \in
        {j \in DOMAIN transactions : transactions[j].value.userId = userId}}

\* json is the answer the claim describes for the user with a record.
GetUserAnswer(json, userId) ==
    LET own == OwnTransactions(userId)
        user == User(users, userId) IN
    /\ json.user = user
    /\ Len(json.transactions) = Cardinality(own)
    /\ {json.transactions[i] : i \in DOMAIN json.transactions} = own
    /\ \A i, j \in DOMAIN json.transactions :
            i < j => json.transactions[i].createdAt >= json.transactions[j].createdAt
    /\ json.summary.totalTransactions = Cardinality(own)
    /\ json.summary.successfulTransactions
            = Cardinality({t \in own : t.status = "completed"})
    /\ json.summary.totalSpent = user.totalSpent
    /\ user.successfulPurchases = 0 => json.summary.isPremium = FALSE

\* C20: the 200 answer of getUser holds the user's record, exactly the
\* ledger's transactions of that user newest first, their count, the count
\* of the completed ones, the record's totalSpent, and isPremium false for
\* a user no confirmation was applied to.
C20_GetUserAnswer ==
    ( /\ lastResponse.kind = "getUser"
      /\ lastResponse.code = 200 )
    => GetUserAnswer(lastResponse.json, lastResponse.json.user.userId)

\* getUser answered with two transactions of different times, of a user
\* without a confirmation, while the ledger holds another user's too.
C20_Witness ==
    /\ lastResponse.kind = "getUser"
    /\ lastResponse.code = 200
    /\ Len(transactions) = 3
    /\ Len(lastResponse.json.transactions) = 2
    /\ lastResponse.json.transactions[1].createdAt
            > lastResponse.json.transactions[2].createdAt
    /\ lastResponse.json.summary.isPremium = FALSE

StoredTransactions == {transactions[i].value : i \in DOMAIN transactions}

\* json is the answer the claim describes for the ledger.
ListAnswer(json) ==
    /\ Len(json.transactions) = Len(transactions)
    /\ {json.transactions[i] : i \in DOMAIN json.transactions} = StoredTransactions
    /\ \A i, j \in DOMAIN json.transactions :
            i < j => json.transactions[i].createdAt >= json.transactions[j].createdAt
    /\ json.summary.totalTransactions = Len(transactions)
    /\ json.summary.completedTransactions + json.summary.pendingTransactions
            = json.summary.totalTransactions
    /\ json.summary.completedTransactions
            = Cardinality({t \in StoredTransactions : t.status = "completed"})
    /\ json.summary.uniqueUsers
            = Cardinality({t.userId : t \in StoredTransactions})

\* C21: in every state the answer of listAllTransactions holds every stored
\* transaction, newest first, with completedTransactions +
\* pendingTransactions = totalTransactions = the number stored and
\* uniqueUsers = the number of distinct user ids among them; so does the
\* answer sent last.
C21_ListAnswer ==
    /\ ListAnswer(ListResponse)
    /\ lastResponse.kind = "listAll" => ListAnswer(lastResponse.json)

\* listAllTransactions answered with a newer pending transaction before an
\* older completed one, of two users.
C21_Witness ==
    /\ lastResponse.kind = "listAll"
    /\ Len(lastResponse.json.transactions) = 2
    /\ lastResponse.json.transactions[1].createdAt
            > lastResponse.json.transactions[2].createdAt
    /\ lastResponse.json.transactions[1].status = "pending"
    /\ lastResponse.json.transactions[2].status = "completed"
    /\ lastResponse.json.summary.uniqueUsers = 2

\* C22: a getUser or listAllTransactions step, taken in any state and with
\* any payment request suspended, leaves transactions and users unchanged.
C22_QueriesReadOnly ==
    [][/\ \A userId \in UserParams : GetUser(userId) => Ledger' = Ledger
       /\ ListAllTransactions => Ledger' = Ledger]_vars

\* A query was answered from a ledger with transactions of different
\* times while a confirmation was suspended.
C22_Witness ==
    /\ lastResponse.kind \in {"getUser", "listAll"}
    /\ lastResponse.code = 200
    /\ Len(transactions) = 2
    /\ transactions[1].value.createdAt < transactions[2].value.createdAt
    /\ \E req \in BagToSet(reqs) : req.kind = "confirm"

\* The step answers one request and calls no gateway.
AnswersOne ==
    /\ answered' = answered + 1
    /\ stripeCalls' = stripeCalls

\* C23: every payment request received is either answered once or still
\* suspended in its one gateway call; the first step of a request answers
\* it (validation failure) or suspends it, and the step after the gateway
\* call (success, status not succeeded, gateway failure) answers it, ends
\* it and calls no gateway again.
C23_OneResponse ==
    /\ [](/\ answered + BagCardinality(reqs) = received
          /\ stripeCalls <= received)
    /\ [][/\ \A body \in CreateBodies :
                CreatePayment(body)
                => /\ received' = received + 1
                   /\ IF BadCreateBody(body)
                      THEN AnswersOne /\ reqs' = reqs
                      ELSE /\ answered' = answered
                           /\ stripeCalls' = stripeCalls + 1
                           /\ BagCardinality(reqs') = BagCardinality(reqs) + 1
          /\ \A body \in ConfirmBodies(KnownIntents) :
                ConfirmPayment(body)
                => /\ received' = received + 1
                   /\ IF BadConfirmBody(body)
                      THEN AnswersOne /\ reqs' = reqs
                      ELSE /\ answered' = answered
                           /\ stripeCalls' = stripeCalls + 1
                           /\ BagCardinality(reqs') = BagCardinality(reqs) + 1
          /\ \A req \in BagToSet(reqs) :
                ( \/ CreateResume(req)
                  \/ \E error \in StripeErrors :
                        CreateFail(req, error) \/ ConfirmFail(req, error)
                  \/ \E paymentIntent \in PaymentIntents :
                        ConfirmResume(req, paymentIntent) )
                => /\ AnswersOne
                   /\ received' = received
                   /\ BagCardinality(reqs') = BagCardinality(reqs) - 1
                   /\ ~BagIn(req, reqs') \/ CopiesIn(req, reqs) > 1]_vars

\* Three requests were answered, one without a gateway call and the last
\* after its gateway call failed; none is suspended.
C23_Witness ==
    /\ received = 3
    /\ answered = 3
    /\ stripeCalls = 2
    /\ reqs = EmptyBag
    /\ lastResponse.code = 500

====
